---------------------------- MODULE Spec2Model ----------------------------
(***************************************************************************)
(* Model of simpleperf/debug_unwind_reporter.py: the block parser          *)
(* (ReportInput.get_samples, Sample.parse), the filter chain               *)
(* (ReportInput.set_filters, ReportInput.filter_sample and the             *)
(* SampleFilter subclasses), the two outputs (ReportOutputDetails,         *)
(* ReportOutputSummary) and the driving loop of main().                    *)
(*                                                                         *)
(* A Python str is a sequence of tokens.  A token is a piece of text that  *)
(* no operation of the program looks inside: a word, a digit, one space,   *)
(* one punctuation mark.  startswith, endswith, rstrip, split, rsplit and  *)
(* int are computed on these sequences.                                    *)
(***************************************************************************)
EXTENDS Integers, Sequences, FiniteSets, TLC

(***************************************************************************)
(* Python str operations                                                   *)
(***************************************************************************)

SP == " "

Digits == {"0", "1", "2", "3", "4", "5", "6", "7", "8", "9"}

DigitValue(t) ==
    CASE t = "0" -> 0 [] t = "1" -> 1 [] t = "2" -> 2 [] t = "3" -> 3
      [] t = "4" -> 4 [] t = "5" -> 5 [] t = "6" -> 6 [] t = "7" -> 7
      [] t = "8" -> 8 [] t = "9" -> 9

\* str.startswith(p)
StartsWith(s, p) == Len(s) >= Len(p) /\ SubSeq(s, 1, Len(p)) = p

\* str.endswith(p)
EndsWith(s, p) == Len(s) >= Len(p) /\ SubSeq(s, Len(s) - Len(p) + 1, Len(s)) = p

\* str.rstrip(): the longest prefix that does not end in whitespace
RECURSIVE rstrip(_)
rstrip(s) ==
    IF s = <<>> THEN <<>>
    ELSE IF s[Len(s)] = SP THEN rstrip(SubSeq(s, 1, Len(s) - 1))
    ELSE s

RECURSIVE lstrip(_)
lstrip(s) ==
    IF s = <<>> THEN <<>>
    ELSE IF s[1] = SP THEN lstrip(Tail(s))
    ELSE s

\* The positions i where the separator ': ' starts in s.
SepPositions(s) == {i \in 1..(Len(s) - 1) : s[i] = ":" /\ s[i + 1] = SP}

Min(S) == CHOOSE x \in S : \A y \in S : x <= y
Max(S) == CHOOSE x \in S : \A y \in S : x >= y

\* line.split(': ', 1): two parts when the separator occurs, else one part.
SplitParts(s) ==
    IF SepPositions(s) = {} THEN <<s>>
    ELSE LET i == Min(SepPositions(s))
         IN  <<SubSeq(s, 1, i - 1), SubSeq(s, i + 2, Len(s))>>

\* key.rsplit('_', 1): split at the last '_', else one part.
RsplitParts(k) ==
    LET us == {i \in 1..Len(k) : k[i] = "_"}
    IN  IF us = {} THEN <<k>>
        ELSE LET i == Max(us)
             IN  <<SubSeq(k, 1, i - 1), SubSeq(k, i + 1, Len(k))>>

\* The digits of an int literal once sign and surrounding whitespace are off.
IntBody(v) ==
    LET t == rstrip(lstrip(v))
    IN  IF t # <<>> /\ t[1] \in {"+", "-"} THEN Tail(t) ELSE t

\* int(v) succeeds: optional whitespace around, optional sign, digits that may
\* be grouped by single underscores.
IsInt(v) ==
    LET b == IntBody(v)
    IN  /\ b # <<>>
        /\ b[1] \in Digits
        /\ b[Len(b)] \in Digits
        /\ \A i \in 1..Len(b) : b[i] \in Digits \cup {"_"}
        /\ \A i \in 1..(Len(b) - 1) : ~(b[i] = "_" /\ b[i + 1] = "_")

RECURSIVE DigitsValue(_, _)
DigitsValue(b, acc) ==
    IF b = <<>> THEN acc
    ELSE IF b[1] = "_" THEN DigitsValue(Tail(b), acc)
    ELSE DigitsValue(Tail(b), 10 * acc + DigitValue(b[1]))

\* int(v), for v with IsInt(v)
IntValue(v) ==
    LET t == rstrip(lstrip(v))
        n == DigitsValue(IntBody(v), 0)
    IN  IF t[1] = "-" THEN 0 - n ELSE n

(***************************************************************************)
(* class CallChainNode, class Sample                                       *)
(***************************************************************************)

CallChainNode == [dso |-> <<>>, symbol |-> <<>>]

\* Sample.__init__ before self.parse()
NewSample(raw_lines) ==
    [raw_lines |-> raw_lines, sample_time |-> 0, error_code |-> 0,
     callchain |-> <<>>]

\* A Python list index i is valid when -len <= i < len; the position it names.
ValidIndex(list, i) == (0 - Len(list)) <= i /\ i < Len(list)
ListPos(list, i) == IF i < 0 THEN Len(list) + i + 1 ELSE i + 1

\* Mutant of get_callchain_node: every dso_N / symbol_N line appends a node.
get_callchain_node_AlwaysAppend(callchain, callchain_id) ==
    Append(callchain, CallChainNode)

\* Mutant of get_callchain_node: a node is appended for any index beyond the
\* chain.
get_callchain_node_BeyondEnd(callchain, callchain_id) ==
    IF callchain_id - 1 >= Len(callchain)
    THEN Append(callchain, CallChainNode)
    ELSE callchain

\* Sample._get_callchain_node: the chain after the possible append.  The
\* caller indexes it at callchain_id - 1, which raises IndexError when that
\* is no valid index.
get_callchain_node(callchain, callchain_id) ==
    IF callchain_id - 1 = Len(callchain)
    THEN Append(callchain, CallChainNode)
    ELSE callchain

\* One iteration of the loop of Sample.parse on `line`, from parse state st
\* = [sample, error].  error is "none" or the exception raised.
ParseLine(st, line) ==
    LET parts == SplitParts(line)
        s     == st.sample
    IN
    IF st.error # "none" THEN st
    ELSE IF Len(parts) # 2 THEN [st EXCEPT !.error = "ValueError"]
    ELSE
      LET key   == parts[1]
          value == parts[2]
      IN
      IF key = <<"sample_time">> THEN
          IF IsInt(value)
          THEN [st EXCEPT !.sample.sample_time = IntValue(value)]
          ELSE [st EXCEPT !.error = "ValueError"]
      ELSE IF key = <<"unwinding_error_code">> THEN
          IF IsInt(value)
          THEN [st EXCEPT !.sample.error_code = IntValue(value)]
          ELSE [st EXCEPT !.error = "ValueError"]
      ELSE IF StartsWith(key, <<"dso">>) \/ StartsWith(key, <<"symbol">>) THEN
          LET rparts == RsplitParts(key)
          IN
          IF Len(rparts) # 2 THEN [st EXCEPT !.error = "IndexError"]
          ELSE IF ~IsInt(rparts[2]) THEN [st EXCEPT !.error = "ValueError"]
          ELSE
            LET callchain_id == IntValue(rparts[2])
                chain == get_callchain_node(s.callchain, callchain_id)
            IN
            IF ~ValidIndex(chain, callchain_id - 1)
            THEN [sample |-> [s EXCEPT !.callchain = chain],
                  error |-> "IndexError"]
            ELSE IF StartsWith(key, <<"dso">>)
            THEN [st EXCEPT !.sample.callchain =
                      [chain EXCEPT ![ListPos(chain, callchain_id - 1)].dso = value]]
            ELSE [st EXCEPT !.sample.callchain =
                      [chain EXCEPT ![ListPos(chain, callchain_id - 1)].symbol = value]]
      ELSE st

RECURSIVE ParseLines(_, _)
ParseLines(st, ls) ==
    IF ls = <<>> THEN st ELSE ParseLines(ParseLine(st, Head(ls)), Tail(ls))

\* Mutant of parse: a field that is no integer is skipped, not raised.
parse_SkipsValueError(raw_lines) ==
    LET st == ParseLines([sample |-> NewSample(raw_lines), error |-> "none"],
                         raw_lines)
    IN  IF st.error = "ValueError" THEN [st EXCEPT !.error = "none"] ELSE st

\* Sample(raw_lines): [sample, error]
parse(raw_lines) ==
    ParseLines([sample |-> NewSample(raw_lines), error |-> "none"], raw_lines)

(***************************************************************************)
(* SampleFilter subclasses.  A filter is [kind, values]: the class and the *)
(* set built by its constructor (empty for CompleteCallChainFilter).       *)
(***************************************************************************)

CompleteCallChainFilter == [kind |-> "CompleteCallChainFilter", values |-> {}]
ErrorCodeFilter(error_code) ==
    [kind |-> "ErrorCodeFilter", values |-> {error_code[i] : i \in DOMAIN error_code}]
EndDsoFilter(end_dso) ==
    [kind |-> "EndDsoFilter", values |-> {end_dso[i] : i \in DOMAIN end_dso}]
EndSymbolFilter(end_symbol) ==
    [kind |-> "EndSymbolFilter", values |-> {end_symbol[i] : i \in DOMAIN end_symbol}]
SampleTimeFilter(sample_time) ==
    [kind |-> "SampleTimeFilter", values |-> {sample_time[i] : i \in DOMAIN sample_time}]

\* Mutant of CompleteMatch: all() where the code has any().
CompleteMatchAll(sample) ==
    \A i \in DOMAIN sample.callchain :
        /\ EndsWith(sample.callchain[i].dso, <<"libc.so">>)
        /\ sample.callchain[i].symbol \in {<<"__libc_init">>, <<"__start_thread">>}

\* CompleteCallChainFilter.match
CompleteMatch(sample) ==
    \E i \in DOMAIN sample.callchain :
        /\ EndsWith(sample.callchain[i].dso, <<"libc.so">>)
        /\ sample.callchain[i].symbol \in {<<"__libc_init">>, <<"__start_thread">>}

\* match raises IndexError: sample.callchain[-1] of an empty list
MatchRaises(f, sample) ==
    f.kind \in {"EndDsoFilter", "EndSymbolFilter"} /\ sample.callchain = <<>>

\* f.match(sample), for a call that does not raise
match(f, sample) ==
    CASE f.kind = "CompleteCallChainFilter" -> CompleteMatch(sample)
      [] f.kind = "ErrorCodeFilter" -> sample.error_code \in f.values
      [] f.kind = "EndDsoFilter" ->
            sample.callchain[Len(sample.callchain)].dso \in f.values
      [] f.kind = "EndSymbolFilter" ->
            sample.callchain[Len(sample.callchain)].symbol \in f.values
      [] f.kind = "SampleTimeFilter" -> sample.sample_time \in f.values

(***************************************************************************)
(* class ReportInput                                                       *)
(***************************************************************************)

\* An option of argparse with nargs='+' is None or a non-empty list; both
\* None and [] are false in `if args.x:`.  None is modelled as <<>>.
Given(opt) == opt # <<>>

Opt(cond, f) == IF cond THEN <<f>> ELSE <<>>

\* Mutant of ExcludeFiltersOf: the test of show_callchain_fixed_by_joiner is
\* the wrong way round.
ExcludeFiltersFlagInverted(a) ==
    Opt(a.show_callchain_fixed_by_joiner, CompleteCallChainFilter)
    \o Opt(Given(a.exclude_error_code), ErrorCodeFilter(a.exclude_error_code))
    \o Opt(Given(a.exclude_end_dso), EndDsoFilter(a.exclude_end_dso))
    \o Opt(Given(a.exclude_end_symbol), EndSymbolFilter(a.exclude_end_symbol))
    \o Opt(Given(a.exclude_sample_time), SampleTimeFilter(a.exclude_sample_time))

\* ReportInput.set_filters: the exclude list
ExcludeFiltersOf(a) ==
    Opt(~a.show_callchain_fixed_by_joiner, CompleteCallChainFilter)
    \o Opt(Given(a.exclude_error_code), ErrorCodeFilter(a.exclude_error_code))
    \o Opt(Given(a.exclude_end_dso), EndDsoFilter(a.exclude_end_dso))
    \o Opt(Given(a.exclude_end_symbol), EndSymbolFilter(a.exclude_end_symbol))
    \o Opt(Given(a.exclude_sample_time), SampleTimeFilter(a.exclude_sample_time))

\* ReportInput.set_filters: the include list
IncludeFiltersOf(a) ==
    Opt(Given(a.include_error_code), ErrorCodeFilter(a.include_error_code))
    \o Opt(Given(a.include_end_dso), EndDsoFilter(a.include_end_dso))
    \o Opt(Given(a.include_end_symbol), EndSymbolFilter(a.include_end_symbol))
    \o Opt(Given(a.include_sample_time), SampleTimeFilter(a.include_sample_time))

\* The first loop of filter_sample: "False" at the first exclude filter that
\* matches, "IndexError" if a match raises before that, else "next".
RECURSIVE ExcludeLoop(_, _)
ExcludeLoop(filters, sample) ==
    IF filters = <<>> THEN "next"
    ELSE IF MatchRaises(Head(filters), sample) THEN "IndexError"
    ELSE IF match(Head(filters), sample) THEN "False"
    ELSE ExcludeLoop(Tail(filters), sample)

\* Mutant of IncludeLoop: one matching include filter is enough.
RECURSIVE IncludeLoopAny(_, _)
IncludeLoopAny(filters, sample) ==
    IF filters = <<>> THEN "True"
    ELSE IF MatchRaises(Head(filters), sample) THEN "IndexError"
    ELSE IF match(Head(filters), sample) THEN "True"
    ELSE IF Tail(filters) = <<>> THEN "False"
    ELSE IncludeLoopAny(Tail(filters), sample)

\* The second loop of filter_sample: "False" at the first include filter
\* that does not match, else "True".
RECURSIVE IncludeLoop(_, _)
IncludeLoop(filters, sample) ==
    IF filters = <<>> THEN "True"
    ELSE IF MatchRaises(Head(filters), sample) THEN "IndexError"
    ELSE IF ~match(Head(filters), sample) THEN "False"
    ELSE IncludeLoop(Tail(filters), sample)

\* Mutant of filter_sample: the include filters are asked first, and a sample
\* they all accept passes.
filter_sample_IncludeFirst(excludes, includes, sample) ==
    IF includes # <<>> /\ IncludeLoop(includes, sample) = "True" THEN "True"
    ELSE LET e == ExcludeLoop(excludes, sample)
         IN  IF e # "next" THEN e ELSE IncludeLoop(includes, sample)

\* ReportInput.filter_sample: "True", "False" or "IndexError"
filter_sample(excludes, includes, sample) ==
    LET e == ExcludeLoop(excludes, sample)
    IN  IF e # "next" THEN e ELSE IncludeLoop(includes, sample)

(***************************************************************************)
(* class ReportOutputSummary: a Counter is a dict, which keeps its keys in *)
(* the order of their first insertion: a sequence of [key, count].         *)
(***************************************************************************)

HasKey(counter, key) == \E i \in DOMAIN counter : counter[i].key = key

\* Mutant of Incr: counter[key] = 1 where the code has += 1.
IncrSetsOne(counter, key) ==
    IF HasKey(counter, key)
    THEN [i \in DOMAIN counter |->
            IF counter[i].key = key
            THEN [counter[i] EXCEPT !.count = 1]
            ELSE counter[i]]
    ELSE Append(counter, [key |-> key, count |-> 1])

\* counter[key] += 1
Incr(counter, key) ==
    IF HasKey(counter, key)
    THEN [i \in DOMAIN counter |->
            IF counter[i].key = key
            THEN [counter[i] EXCEPT !.count = @ + 1]
            ELSE counter[i]]
    ELSE Append(counter, [key |-> key, count |-> 1])

\* symbol_counters[error_code], a defaultdict(Counter)
CounterOf(symbol_counters, error_code) ==
    IF \E i \in DOMAIN symbol_counters : symbol_counters[i].key = error_code
    THEN symbol_counters[CHOOSE i \in DOMAIN symbol_counters :
                            symbol_counters[i].key = error_code].counter
    ELSE <<>>

\* symbol_counters[error_code][symbol_key] += 1
IncrSymbol(symbol_counters, error_code, symbol_key) ==
    IF \E i \in DOMAIN symbol_counters : symbol_counters[i].key = error_code
    THEN [i \in DOMAIN symbol_counters |->
            IF symbol_counters[i].key = error_code
            THEN [symbol_counters[i] EXCEPT !.counter = Incr(@, symbol_key)]
            ELSE symbol_counters[i]]
    ELSE Append(symbol_counters,
                [key |-> error_code, counter |-> Incr(<<>>, symbol_key)])

\* Mutant of InsertSorted: the item goes in front of the items of equal
\* count, as in a sort that is not stable.
RECURSIVE InsertBeforeEqual(_, _)
InsertBeforeEqual(sorted, item) ==
    IF sorted = <<>> THEN <<item>>
    ELSE IF Head(sorted).count > item.count
    THEN <<Head(sorted)>> \o InsertBeforeEqual(Tail(sorted), item)
    ELSE <<item>> \o sorted

\* Insert item into a list sorted by count descending, behind the items whose
\* count is not smaller: the place a stable sort gives a later item.
RECURSIVE InsertSorted(_, _)
InsertSorted(sorted, item) ==
    IF sorted = <<>> THEN <<item>>
    ELSE IF Head(sorted).count >= item.count
    THEN <<Head(sorted)>> \o InsertSorted(Tail(sorted), item)
    ELSE <<item>> \o sorted

\* Counter.most_common(): sorted(items, key=count, reverse=True), a stable sort
RECURSIVE SortFrom(_, _)
SortFrom(sorted, rest) ==
    IF rest = <<>> THEN sorted
    ELSE SortFrom(InsertSorted(sorted, Head(rest)), Tail(rest))

most_common(counter) == SortFrom(<<>>, counter)

\* ReportOutputSummary.draw_error_code_table: the rows after the header row
draw_error_code_table(error_code_counter) ==
    LET mc == most_common(error_code_counter)
    IN  [i \in DOMAIN mc |-> [count |-> mc[i].count, error_code |-> mc[i].key]]

\* The rows draw_symbol_table adds for one error code
SymbolRows(symbol_counters, error_code) ==
    LET mc == most_common(CounterOf(symbol_counters, error_code))
    IN  [i \in DOMAIN mc |->
            [count |-> mc[i].count, error_code |-> error_code,
             dso |-> mc[i].key[1], symbol |-> mc[i].key[2]]]

RECURSIVE SymbolRowsOf(_, _)
SymbolRowsOf(symbol_counters, codes) ==
    IF codes = <<>> THEN <<>>
    ELSE SymbolRows(symbol_counters, Head(codes).key)
         \o SymbolRowsOf(symbol_counters, Tail(codes))

\* Mutant of draw_symbol_table: the error codes are taken in the order of
\* the counter, not of most_common().
draw_symbol_table_CounterOrder(error_code_counter, symbol_counters) ==
    SymbolRowsOf(symbol_counters, error_code_counter)

\* ReportOutputSummary.draw_symbol_table: the rows after the header row
draw_symbol_table(error_code_counter, symbol_counters) ==
    SymbolRowsOf(symbol_counters, most_common(error_code_counter))

(***************************************************************************)
(* The run: main() drives the generator get_samples.                       *)
(***************************************************************************)

VARIABLES
    args,               \* the argparse.Namespace of get_args()
    file,               \* the lines of args.input_file, without their '\n'
    pc,                 \* where main() is
    exclude_filters,    \* ReportInput.exclude_filters
    include_filters,    \* ReportInput.include_filters
    report_output,      \* the class of report_output
    gen_pc,             \* where the generator get_samples is
    fh,                 \* the file handle of get_samples
    lines,              \* the list fh.readlines() returned
    idx,                \* how many of lines the for loop has taken
    in_sample,          \* get_samples: in_sample
    sample_lines,       \* get_samples: sample_lines
    sample,             \* the Sample the for loop of main() holds
    error,              \* the exception that ended the run, or "none"
    error_code_counter, \* ReportOutputSummary.error_code_counter
    symbol_counters,    \* ReportOutputSummary.symbol_counters
    stdout,             \* the lines ReportOutputDetails printed
    error_code_table,   \* the rows of the first table of end_report
    symbol_table,       \* the rows of the second table of end_report
    built,              \* history: the raw_lines of every Sample(...) call
    parsed,             \* history: the Samples whose construction returned
    verdicts,           \* history: what filter_sample did for each of parsed
    yielded,            \* history: the Samples get_samples yielded
    reported,           \* history: the Samples report_output.report() took
    sink_calls          \* history: the calls made on report_output

vars == <<args, file, pc, exclude_filters, include_filters, report_output,
          gen_pc, fh, lines, idx, in_sample, sample_lines, sample, error,
          error_code_counter, symbol_counters, stdout, error_code_table,
          symbol_table, built, parsed, verdicts, yielded, reported,
          sink_calls>>

gen_vars == <<gen_pc, fh, lines, idx, in_sample, sample_lines, built, parsed,
              verdicts, yielded>>
sink_vars == <<error_code_counter, symbol_counters, stdout, error_code_table,
               symbol_table, reported, sink_calls>>

None == [none |-> TRUE]

\* Mutant of Pulling: the samples are produced ahead of the loop body, as by
\* a producer that does not wait for its consumer.
PullingEager == pc \in {"for", "report"}

\* Mutant of AfterReport: the loop is left after the first report(), as by a
\* stray break.
AfterReportLeaves == "end_report"

\* main(), lines 265-266: the body of a generator runs only inside the next()
\* the for statement makes, never while the loop body has the sample.
Pulling == pc = "for"

\* main(), lines 265-266: after report() returns the for statement asks the
\* generator for the next sample.
AfterReport == "for"

\* get_samples, line 159
IsSampleStart(line) == StartsWith(line, <<"sample_time", ":">>)

\* Mutant of AppendIfInSample: the line is kept whether or not a block is open.
AppendAlways(now_in, ls, line) == Append(ls, line)

\* get_samples, lines 168-169
AppendIfInSample(now_in, ls, line) == IF now_in THEN Append(ls, line) ELSE ls

\* main(), lines 261-264: the filters and the output are set up.
SetFilters ==
    /\ pc = "set_filters"
    /\ exclude_filters' = ExcludeFiltersOf(args)
    /\ include_filters' = IncludeFiltersOf(args)
    /\ report_output' = IF args.summary THEN "ReportOutputSummary"
                        ELSE "ReportOutputDetails"
    /\ pc' = "for"
    /\ UNCHANGED <<args, file, sample, error>>
    /\ UNCHANGED gen_vars
    /\ UNCHANGED sink_vars

\* get_samples, lines 154-157: the first next() on the generator opens the
\* file and reads all its lines.
GenStart ==
    /\ Pulling
    /\ gen_pc = "unstarted"
    /\ fh' = "open"
    /\ lines' = file
    /\ gen_pc' = "running"
    /\ UNCHANGED <<args, file, pc, exclude_filters, include_filters,
                   report_output, idx, in_sample, sample_lines, sample, error,
                   built, parsed, verdicts, yielded>>
    /\ UNCHANGED sink_vars

\* Mutant of FiltersAfterFilterSample: the call consumes the filter it
\* tried first.
FiltersAfterFilterSample_Consumed(filters) ==
    IF filters = <<>> THEN filters ELSE Tail(filters)

\* filter_sample and the match methods it calls: a filter list after the
\* call.  They only read self.exclude_filters, self.include_filters, the
\* filters' sets and the sample.
FiltersAfterFilterSample(filters) == filters

\* get_samples, lines 157-169: one iteration of the for loop, which ends at
\* the yield, at an exception or at the bottom of the loop body.
GenLine ==
    /\ Pulling
    /\ gen_pc \in {"running", "suspended"}
    /\ idx < Len(lines)
    /\ LET line     == rstrip(lines[idx + 1])
           starts   == IsSampleStart(line)
           closes   == ~starts /\ line = <<>> /\ in_sample
           now_in   == IF starts THEN TRUE ELSE IF closes THEN FALSE ELSE in_sample
           p        == parse(sample_lines)
           f        == filter_sample(exclude_filters, include_filters, p.sample)
       IN
       /\ idx' = idx + 1
       /\ in_sample' = now_in
       /\ IF ~closes THEN
              /\ sample_lines' = AppendIfInSample(now_in, sample_lines, line)
              /\ gen_pc' = "running"
              /\ UNCHANGED <<pc, sample, error, fh, built, parsed, verdicts,
                             yielded>>
          ELSE IF p.error # "none" THEN
              \* Sample(sample_lines) raises: the with statement closes fh
              /\ built' = Append(built, sample_lines)
              /\ gen_pc' = "raised"
              /\ fh' = "closed"
              /\ error' = p.error
              /\ pc' = "error"
              /\ UNCHANGED <<sample_lines, sample, parsed, verdicts, yielded>>
          ELSE IF f = "IndexError" THEN
              \* filter_sample raises
              /\ built' = Append(built, sample_lines)
              /\ parsed' = Append(parsed, p.sample)
              /\ verdicts' = Append(verdicts, f)
              /\ sample_lines' = <<>>
              /\ gen_pc' = "raised"
              /\ fh' = "closed"
              /\ error' = "IndexError"
              /\ pc' = "error"
              /\ UNCHANGED <<sample, yielded>>
          ELSE IF f = "True" THEN
              /\ built' = Append(built, sample_lines)
              /\ parsed' = Append(parsed, p.sample)
              /\ verdicts' = Append(verdicts, f)
              /\ sample_lines' = <<>>
              /\ yielded' = Append(yielded, p.sample)
              /\ gen_pc' = "suspended"
              /\ sample' = p.sample
              /\ pc' = "report"
              /\ UNCHANGED <<error, fh>>
          ELSE
              /\ built' = Append(built, sample_lines)
              /\ parsed' = Append(parsed, p.sample)
              /\ verdicts' = Append(verdicts, f)
              /\ sample_lines' = <<>>
              /\ gen_pc' = "running"
              /\ UNCHANGED <<pc, sample, error, fh, yielded>>
       /\ IF closes /\ p.error = "none" THEN
              /\ exclude_filters' = FiltersAfterFilterSample(exclude_filters)
              /\ include_filters' = FiltersAfterFilterSample(include_filters)
          ELSE UNCHANGED <<exclude_filters, include_filters>>
    /\ UNCHANGED <<args, file, report_output, lines>>
    /\ UNCHANGED sink_vars

\* Mutant of GenExhaust: a block still open at the end of the file is handed
\* to Sample() as if a blank line had closed it.
GenExhaust_FlushesOpenBlock ==
    /\ Pulling
    /\ gen_pc \in {"running", "suspended"}
    /\ idx = Len(lines)
    /\ fh' = "closed"
    /\ gen_pc' = "finished"
    /\ pc' = "end_report"
    /\ built' = IF in_sample THEN Append(built, sample_lines) ELSE built
    /\ UNCHANGED <<args, file, exclude_filters, include_filters, report_output,
                   lines, idx, in_sample, sample_lines, sample, error,
                   parsed, verdicts, yielded>>
    /\ UNCHANGED sink_vars

\* get_samples, line 157 at the end of the list: the with statement closes
\* fh, the generator returns and the for loop of main() ends.
GenExhaust ==
    /\ Pulling
    /\ gen_pc \in {"running", "suspended"}
    /\ idx = Len(lines)
    /\ fh' = "closed"
    /\ gen_pc' = "finished"
    /\ pc' = "end_report"
    /\ UNCHANGED <<args, file, exclude_filters, include_filters, report_output,
                   lines, idx, in_sample, sample_lines, sample, error, built,
                   parsed, verdicts, yielded>>
    /\ UNCHANGED sink_vars

\* Mutant of DetailsReport: the blank line is printed before the lines.
DetailsReport_BlankFirst(out, s) == out \o << <<>> >> \o s.raw_lines

\* Mutant of DetailsReport: no blank line after the lines.
DetailsReport_NoBlankLine(out, s) == out \o s.raw_lines

\* ReportOutputDetails.report: the lines on stdout after the call
DetailsReport(out, s) == out \o s.raw_lines \o << <<>> >>

\* main() with ReportOutputDetails on a file of lines ls, as one function:
\* the loop of get_samples from the state (now_in, acc) with `out` printed so
\* far, to the end of the file or to the exception that ends the run.
RECURSIVE DetailRun(_, _, _, _, _, _)
DetailRun(excludes, includes, ls, now_in, acc, out) ==
    IF ls = <<>> THEN [stdout |-> out, error |-> "none"]
    ELSE
      LET line   == rstrip(Head(ls))
          starts == IsSampleStart(line)
          closes == ~starts /\ line = <<>> /\ now_in
          now    == IF starts THEN TRUE ELSE IF closes THEN FALSE ELSE now_in
          p      == parse(acc)
          f      == filter_sample(excludes, includes, p.sample)
      IN
      IF ~closes
      THEN DetailRun(excludes, includes, Tail(ls), now,
                     AppendIfInSample(now, acc, line), out)
      ELSE IF p.error # "none" THEN [stdout |-> out, error |-> p.error]
      ELSE IF f = "IndexError" THEN [stdout |-> out, error |-> "IndexError"]
      ELSE IF f = "True"
      THEN DetailRun(excludes, includes, Tail(ls), now, <<>>,
                     DetailsReport(out, p.sample))
      ELSE DetailRun(excludes, includes, Tail(ls), now, <<>>, out)

\* main(), line 266: report_output.report(sample)
Report ==
    /\ pc = "report"
    /\ sink_calls' = Append(sink_calls, "report")
    /\ IF report_output = "ReportOutputDetails" THEN
           /\ stdout' = DetailsReport(stdout, sample)
           /\ reported' = Append(reported, sample)
           /\ pc' = AfterReport
           /\ UNCHANGED <<error, error_code_counter, symbol_counters>>
       ELSE IF sample.callchain = <<>> THEN
           \* sample.callchain[-1] raises IndexError
           /\ error' = "IndexError"
           /\ pc' = "error"
           /\ UNCHANGED <<stdout, reported, error_code_counter, symbol_counters>>
       ELSE
           /\ symbol_counters' =
                  IncrSymbol(symbol_counters, sample.error_code,
                             <<sample.callchain[Len(sample.callchain)].dso,
                               sample.callchain[Len(sample.callchain)].symbol>>)
           /\ error_code_counter' = Incr(error_code_counter, sample.error_code)
           /\ reported' = Append(reported, sample)
           /\ pc' = AfterReport
           /\ UNCHANGED <<error, stdout>>
    /\ UNCHANGED <<args, file, exclude_filters, include_filters, report_output,
                   sample, error_code_table, symbol_table>>
    /\ UNCHANGED gen_vars

\* main(), line 267: report_output.end_report()
EndReport ==
    /\ pc = "end_report"
    /\ sink_calls' = Append(sink_calls, "end_report")
    /\ IF report_output = "ReportOutputSummary" THEN
           /\ error_code_table' = draw_error_code_table(error_code_counter)
           /\ symbol_table' = draw_symbol_table(error_code_counter, symbol_counters)
       ELSE UNCHANGED <<error_code_table, symbol_table>>
    /\ pc' = "done"
    /\ UNCHANGED <<args, file, exclude_filters, include_filters, report_output,
                   sample, error, error_code_counter, symbol_counters, stdout,
                   reported>>
    /\ UNCHANGED gen_vars

\* After report() raised, main() has ended with the generator of get_samples
\* (line 265) still suspended at its yield inside the with statement.  Nothing
\* in main() closes the generator: the interpreter may finalize it later,
\* which raises GeneratorExit at the yield and lets the with statement close
\* fh, or the run may end without that step.
GenFinalize ==
    /\ pc = "error"
    /\ gen_pc = "suspended"
    /\ gen_pc' = "closed"
    /\ fh' = "closed"
    /\ UNCHANGED <<args, file, pc, exclude_filters, include_filters,
                   report_output, lines, idx, in_sample, sample_lines, sample,
                   error, built, parsed, verdicts, yielded>>
    /\ UNCHANGED sink_vars

Next ==
    \/ SetFilters \/ GenStart \/ GenLine \/ GenExhaust \/ Report \/ EndReport
    \/ GenFinalize

\* The state after get_args(), for a namespace a and an input file f.
InitWith(a, f) ==
    /\ args = a
    /\ file = f
    /\ pc = "set_filters"
    /\ exclude_filters = <<>>
    /\ include_filters = <<>>
    /\ report_output = "none"
    /\ gen_pc = "unstarted"
    /\ fh = "unopened"
    /\ lines = <<>>
    /\ idx = 0
    /\ in_sample = FALSE
    /\ sample_lines = <<>>
    /\ sample = None
    /\ error = "none"
    /\ error_code_counter = <<>>
    /\ symbol_counters = <<>>
    /\ stdout = <<>>
    /\ error_code_table = <<>>
    /\ symbol_table = <<>>
    /\ built = <<>>
    /\ parsed = <<>>
    /\ verdicts = <<>>
    /\ yielded = <<>>
    /\ reported = <<>>
    /\ sink_calls = <<>>

(***************************************************************************)
(* Inputs: lines, blocks, files and argument namespaces                    *)
(***************************************************************************)

\* The line 'key: value'
KV(key, value) == key \o <<":", SP>> \o value

LibcSo == <<"/lib/", "libc.so">>
LibFoo == <<"libfoo.so">>

SampleTimeLine(t) == KV(<<"sample_time">>, <<t>>)
ErrorCodeLine(e) == KV(<<"unwinding_error_code">>, <<e>>)
DsoLine(n, dso) == KV(<<"dso", "_", n>>, dso)
SymbolLine(n, symbol) == KV(<<"symbol", "_", n>>, <<symbol>>)
BlankLine == <<>>

\* A block of one frame and its closing blank line
Block1(t, e, dso, symbol) ==
    <<SampleTimeLine(t), ErrorCodeLine(e), DsoLine("1", dso),
      SymbolLine("1", symbol), BlankLine>>

\* A block of two frames and its closing blank line
Block2(t, e, dso1, symbol1, dso2, symbol2) ==
    <<SampleTimeLine(t), ErrorCodeLine(e), DsoLine("1", dso1),
      SymbolLine("1", symbol1), DsoLine("2", dso2), SymbolLine("2", symbol2),
      BlankLine>>

\* A block without dso_N / symbol_N lines
Block0(t) == <<SampleTimeLine(t), BlankLine>>

SeqsUpTo(S, n) == UNION {[1..k -> S] : k \in 0..n}

RECURSIVE Concat(_)
Concat(ss) == IF ss = <<>> THEN <<>> ELSE Head(ss) \o Concat(Tail(ss))

NoArgs ==
    [show_callchain_fixed_by_joiner |-> FALSE, summary |-> FALSE,
     exclude_error_code |-> <<>>, exclude_end_dso |-> <<>>,
     exclude_end_symbol |-> <<>>, exclude_sample_time |-> <<>>,
     include_error_code |-> <<>>, include_end_dso |-> <<>>,
     include_end_symbol |-> <<>>, include_sample_time |-> <<>>]

\* How many of the eight filter options a namespace gives
NumOptions(a) ==
    Cardinality({o \in {"exclude_error_code", "exclude_end_dso",
                        "exclude_end_symbol", "exclude_sample_time",
                        "include_error_code", "include_end_dso",
                        "include_end_symbol", "include_sample_time"} :
                    Given(a[o])})

\* ---- Spec: any sequence of lines ----

MaxLines == 5

Lines ==
    { SampleTimeLine("1"),
      BlankLine,
      <<SP>>,                                      \* only whitespace
      KV(<<"unwinding_error_code">>, <<"2", SP>>), \* trailing whitespace
      DsoLine("1", LibFoo),
      ErrorCodeLine("x") }                         \* no integer

LinesArgs ==
    { NoArgs,
      [NoArgs EXCEPT !.summary = TRUE],
      [NoArgs EXCEPT !.exclude_error_code = <<2>>] }

Init == \E a \in LinesArgs : \E f \in SeqsUpTo(Lines, MaxLines) : InitWith(a, f)

Spec == Init /\ [][Next]_vars

\* ---- SpecFilter: whole blocks under many filter configurations ----

MaxBlocks == 1
MaxOptions == 2

FilterBlocks ==
    { Block0("1"),
      Block1("1", "1", LibcSo, "__libc_init"),
      Block1("2", "1", LibFoo, "bar"),
      Block1("2", "2", LibFoo, "baz"),
      Block2("1", "2", LibFoo, "bar", LibcSo, "__start_thread"),
      Block2("2", "1", LibcSo, "bar", LibFoo, "__libc_init") }

ErrorCodeOpts == {<<>>, <<1>>, <<2>>}
EndDsoOpts == {<<>>, <<LibFoo>>}
EndSymbolOpts == {<<>>, << <<"bar">> >>}
SampleTimeOpts == {<<>>, <<1>>}

FilterArgs ==
    { a \in [show_callchain_fixed_by_joiner : BOOLEAN, summary : BOOLEAN,
             exclude_error_code : ErrorCodeOpts, exclude_end_dso : EndDsoOpts,
             exclude_end_symbol : EndSymbolOpts,
             exclude_sample_time : SampleTimeOpts,
             include_error_code : ErrorCodeOpts, include_end_dso : EndDsoOpts,
             include_end_symbol : EndSymbolOpts,
             include_sample_time : SampleTimeOpts] :
        NumOptions(a) <= MaxOptions }

InitFilter ==
    \E a \in FilterArgs : \E bs \in SeqsUpTo(FilterBlocks, MaxBlocks) :
        InitWith(a, Concat(bs))

SpecFilter == InitFilter /\ [][Next]_vars

\* ---- SpecSummary: the summary output over several samples ----

MaxSamples == 4

SummaryBlocks ==
    { Block0("1"),
      Block1("1", "1", LibFoo, "bar"),
      Block1("1", "1", LibFoo, "baz"),
      Block1("1", "2", LibFoo, "bar"),
      Block2("1", "2", LibFoo, "bar", LibFoo, "baz"),
      Block1("1", "3", LibFoo, "bar"),
      Block1("1", "2", LibcSo, "__libc_init") }

SummaryArgs == { [NoArgs EXCEPT !.summary = TRUE] }

InitSummary ==
    \E a \in SummaryArgs : \E bs \in SeqsUpTo(SummaryBlocks, MaxSamples) :
        InitWith(a, Concat(bs))

SpecSummary == InitSummary /\ [][Next]_vars

\* ---- SpecParse: one block of any fields, then a second block ----

MaxFields == 3

ParseFields ==
    { DsoLine("1", LibFoo),
      DsoLine("1", LibcSo),
      SymbolLine("1", "bar"),
      DsoLine("2", LibFoo),
      SymbolLine("2", "baz"),
      ErrorCodeLine("3"),
      SampleTimeLine("7"),
      KV(<<"thread_name">>, <<"main">>),           \* a key parse() ignores
      SampleTimeLine("x"),                         \* no integer
      ErrorCodeLine("x"),                          \* no integer
      DsoLine("x", LibFoo) }                       \* no integer suffix

ParseArgs == { NoArgs, [NoArgs EXCEPT !.summary = TRUE] }

InitParse ==
    \E a \in ParseArgs : \E fields \in SeqsUpTo(ParseFields, MaxFields) :
        InitWith(a, <<SampleTimeLine("1")>> \o fields \o <<BlankLine>>
                    \o Block0("2"))

SpecParse == InitParse /\ [][Next]_vars

(***************************************************************************)
(* Properties                                                              *)
(***************************************************************************)

Range(seq) == {seq[i] : i \in DOMAIN seq}

LastNode(s) == s.callchain[Len(s.callchain)]

\* Some frame of s is an entry point the callchain joiner can start from.
HasJoinerFrame(s) ==
    \E node \in Range(s.callchain) :
        /\ node.dso # <<>>
        /\ node.dso[Len(node.dso)] = "libc.so"
        /\ (node.symbol = <<"__libc_init">> \/ node.symbol = <<"__start_thread">>)

\* s matches one of the exclude options of namespace a.
ExcludedBy(a, s) ==
    \/ ~a.show_callchain_fixed_by_joiner /\ HasJoinerFrame(s)
    \/ s.error_code \in Range(a.exclude_error_code)
    \/ s.callchain # <<>> /\ LastNode(s).dso \in Range(a.exclude_end_dso)
    \/ s.callchain # <<>> /\ LastNode(s).symbol \in Range(a.exclude_end_symbol)
    \/ s.sample_time \in Range(a.exclude_sample_time)

\* s matches every include option that namespace a gives.
IncludedBy(a, s) ==
    /\ Given(a.include_error_code) => s.error_code \in Range(a.include_error_code)
    /\ Given(a.include_end_dso) =>
          s.callchain # <<>> /\ LastNode(s).dso \in Range(a.include_end_dso)
    /\ Given(a.include_end_symbol) =>
          s.callchain # <<>> /\ LastNode(s).symbol \in Range(a.include_end_symbol)
    /\ Given(a.include_sample_time) => s.sample_time \in Range(a.include_sample_time)

GivesInclude(a) ==
    \/ Given(a.include_error_code) \/ Given(a.include_end_dso)
    \/ Given(a.include_end_symbol) \/ Given(a.include_sample_time)

\* C1: a sample that matches a configured exclude option is never yielded
\* by get_samples and never reaches report(), whatever the include options
\* say about it.
C1_ExcludedNeverYielded ==
    /\ \A i \in DOMAIN yielded : ~ExcludedBy(args, yielded[i])
    /\ \A i \in DOMAIN reported : ~ExcludedBy(args, reported[i])
    /\ pc = "report" => ~ExcludedBy(args, sample)

\* C1 witness: the file is read to its end, a block was parsed into a sample
\* that an exclude option matches and that all the given include options
\* accept, and nothing was yielded.
C1_Witness ==
    /\ gen_pc = "finished"
    /\ yielded = <<>>
    /\ GivesInclude(args)
    /\ \E i \in DOMAIN parsed :
          ExcludedBy(args, parsed[i]) /\ IncludedBy(args, parsed[i])

\* match of filter f on s returned the boolean b.
Returns(f, s, b) == ~MatchRaises(f, s) /\ match(f, s) = b

\* C2: filter_sample returns True exactly when every exclude filter
\* answers False for the sample and every include filter answers True.  (A
\* match that raises answers neither, and then filter_sample returns
\* nothing.)  With two include filters this asks both to answer True; with
\* none the second conjunct is empty and the exclude filters alone decide.
C2_FilterSampleIff ==
    \A i \in DOMAIN parsed :
        (verdicts[i] = "True") <=>
            /\ \A j \in DOMAIN exclude_filters :
                  Returns(exclude_filters[j], parsed[i], FALSE)
            /\ \A j \in DOMAIN include_filters :
                  Returns(include_filters[j], parsed[i], TRUE)

\* C2 witness: two include filters, a sample that no exclude filter matches
\* and that satisfies one include filter and not the other, and
\* filter_sample returned False for it.
C2_Witness ==
    /\ Len(include_filters) = 2
    /\ exclude_filters # <<>>
    /\ \E i \in DOMAIN parsed :
          /\ verdicts[i] = "False"
          /\ \A j \in DOMAIN exclude_filters :
                Returns(exclude_filters[j], parsed[i], FALSE)
          /\ \E j, k \in DOMAIN include_filters :
                /\ Returns(include_filters[j], parsed[i], TRUE)
                /\ Returns(include_filters[k], parsed[i], FALSE)

\* ---- The blocks of a sequence of lines, stated on the whole sequence ----

BeginsSample(l) == Len(l) >= 2 /\ l[1] = "sample_time" /\ l[2] = ":"
OnlyWhitespace(l) == \A i \in DOMAIN l : l[i] = SP

\* Line i begins a block: it begins with 'sample_time:' and every earlier
\* such line has a blank line between it and i, so that no block is open.
BlockStarts(L) ==
    {i \in DOMAIN L :
        /\ BeginsSample(L[i])
        /\ \A k \in 1..(i - 1) :
              BeginsSample(L[k]) => \E j \in (k + 1)..(i - 1) : OnlyWhitespace(L[j])}

BlanksAfter(L, i) == {j \in (i + 1)..Len(L) : OnlyWhitespace(L[j])}

\* The block starts that have a closing blank line, in file order
RECURSIVE Ascending(_)
Ascending(S) == IF S = {} THEN <<>> ELSE <<Min(S)>> \o Ascending(S \ {Min(S)})

ClosedStarts(L) == Ascending({i \in BlockStarts(L) : BlanksAfter(L, i) # {}})

\* The lines of each closed block, from its first line up to but without its
\* closing blank line: as they stand in the file, ...
BlocksVerbatim(L) ==
    LET st == ClosedStarts(L)
    IN  [k \in DOMAIN st |-> SubSeq(L, st[k], Min(BlanksAfter(L, st[k])) - 1)]

\* ... and without their trailing whitespace.
BlocksStripped(L) ==
    LET bs == BlocksVerbatim(L)
    IN  [k \in DOMAIN bs |-> [n \in DOMAIN bs[k] |-> rstrip(bs[k][n])]]

\* The members of seq at the positions where keep holds, in order
RECURSIVE Picked(_, _, _)
Picked(seq, keep, n) ==
    IF n > Len(seq) THEN <<>>
    ELSE (IF keep[n] = "True" THEN <<seq[n]>> ELSE <<>>) \o Picked(seq, keep, n + 1)

DefaultConfig(a) == ~a.show_callchain_fixed_by_joiner /\ NumOptions(a) = 0

\* --show-callchain-fixed-by-joiner and no filter option: no filter at all.
ShowOnly(a) == a.show_callchain_fixed_by_joiner /\ NumOptions(a) = 0

\* A line 'dso...: value' or 'symbol...: value'
IsFrameLine(l) == SepPositions(l) # {} /\ l[1] \in {"dso", "symbol"}

\* C4 as stated: with the default configuration every yielded sample has a
\* non-empty call chain.
C4_YieldedChainNonEmpty ==
    DefaultConfig(args) => \A i \in DOMAIN yielded : yielded[i].callchain # <<>>

\* C4, amended: with the default configuration a yielded sample has a
\* non-empty call chain exactly when its block has a dso_N or symbol_N line;
\* a block without one gives a sample with an empty call chain, which passes
\* the default exclude filter and is yielded.
C4_ChainOfYielded ==
    DefaultConfig(args) =>
        /\ \A i \in DOMAIN yielded :
              (yielded[i].callchain # <<>>) <=>
                  \E n \in DOMAIN yielded[i].raw_lines :
                      IsFrameLine(yielded[i].raw_lines[n])
        /\ \A i \in DOMAIN parsed :
              parsed[i].callchain = <<>> =>
                  verdicts[i] = "True" /\ parsed[i] \in Range(yielded)

\* C4 witness: the default configuration, and a sample with an empty call
\* chain was yielded and reported.
C4_Witness ==
    /\ DefaultConfig(args)
    /\ pc = "done"
    /\ \E i \in DOMAIN reported : reported[i].callchain = <<>>

\* C5: with the default configuration no yielded sample has a frame whose
\* library ends in 'libc.so' and whose symbol is '__libc_init' or
\* '__start_thread'; with show_callchain_fixed_by_joiner and no filter
\* option every such sample is yielded.
C5_JoinerFrameSamples ==
    /\ DefaultConfig(args) =>
          \A i \in DOMAIN yielded : ~HasJoinerFrame(yielded[i])
    /\ ShowOnly(args) =>
          \A i \in DOMAIN parsed :
              HasJoinerFrame(parsed[i]) =>
                  verdicts[i] = "True" /\ parsed[i] \in Range(yielded)

\* C5 witness: show_callchain_fixed_by_joiner alone, and a sample with such
\* a frame was yielded.
C5_Witness ==
    /\ ShowOnly(args)
    /\ \E i \in DOMAIN yielded : HasJoinerFrame(yielded[i])

\* ---- The summary ----

\* counter[key] read: the sum of the counts entered under key (0 if none)
RECURSIVE CountIn(_, _)
CountIn(counter, key) ==
    IF counter = <<>> THEN 0
    ELSE (IF Head(counter).key = key THEN Head(counter).count ELSE 0)
         + CountIn(Tail(counter), key)

RECURSIVE SumCounts(_)
SumCounts(counter) ==
    IF counter = <<>> THEN 0 ELSE Head(counter).count + SumCounts(Tail(counter))

UniqueKeys(counter) ==
    \A i, j \in DOMAIN counter : counter[i].key = counter[j].key => i = j

\* The counters kept under error code e, joined
SymbolCounterOf(e) ==
    Concat([i \in DOMAIN symbol_counters |->
               IF symbol_counters[i].key = e THEN symbol_counters[i].counter
               ELSE <<>>])

LastPair(s) == <<LastNode(s).dso, LastNode(s).symbol>>

\* The positions of the consumed samples with error code e / and last frame k
ReportedWith(e) == {i \in DOMAIN reported : reported[i].error_code = e}
ReportedAt(e, k) == {i \in ReportedWith(e) : LastPair(reported[i]) = k}

SeenCodes ==
    {reported[i].error_code : i \in DOMAIN reported}
    \cup {error_code_counter[i].key : i \in DOMAIN error_code_counter}
    \cup {symbol_counters[i].key : i \in DOMAIN symbol_counters}

SeenPairs ==
    {LastPair(reported[i]) : i \in DOMAIN reported}
    \cup UNION {{symbol_counters[i].counter[j].key :
                    j \in DOMAIN symbol_counters[i].counter} :
                i \in DOMAIN symbol_counters}

\* C6: in the summary output, the count of every error code is the number
\* of consumed samples with that code, the count of every (dso, symbol) pair
\* under an error code is the number of consumed samples with that code
\* whose last frame is that pair, and so the pair counts under a code sum to
\* the count of the code.
C6_SummaryCounts ==
    report_output = "ReportOutputSummary" =>
        /\ UniqueKeys(error_code_counter)
        /\ UniqueKeys(symbol_counters)
        /\ \A e \in SeenCodes :
              /\ CountIn(error_code_counter, e) = Cardinality(ReportedWith(e))
              /\ UniqueKeys(SymbolCounterOf(e))
              /\ \A k \in SeenPairs :
                    CountIn(SymbolCounterOf(e), k) = Cardinality(ReportedAt(e, k))
              /\ SumCounts(SymbolCounterOf(e)) = CountIn(error_code_counter, e)

\* C6 witness: the summary consumed at least three samples, of two error
\* codes, two of them with the same code and last frame, one of them with
\* two frames.
C6_Witness ==
    /\ report_output = "ReportOutputSummary"
    /\ Len(reported) >= 3
    /\ Cardinality({reported[i].error_code : i \in DOMAIN reported}) >= 2
    /\ \E i \in DOMAIN reported : Len(reported[i].callchain) = 2
    /\ \E e \in SeenCodes : \E k \in SeenPairs :
          CountIn(SymbolCounterOf(e), k) >= 2

SummaryDone == pc = "done" /\ report_output = "ReportOutputSummary"

FirstSeen(e) == Min(ReportedWith(e))
FirstSeenAt(e, k) == Min(ReportedAt(e, k))

\* C7: the error-code table drawn by end_report has one row per error code
\* consumed, each with the number of consumed samples of that code; the
\* rows are in descending order of count, and codes of equal count are in
\* the order in which they were first seen in the sample stream.
C7_ErrorCodeTable ==
    SummaryDone =>
        LET T == error_code_table
        IN  /\ {T[i].error_code : i \in DOMAIN T} =
                  {reported[i].error_code : i \in DOMAIN reported}
            /\ \A i, j \in DOMAIN T : T[i].error_code = T[j].error_code => i = j
            /\ \A i \in DOMAIN T :
                  T[i].count = Cardinality(ReportedWith(T[i].error_code))
            /\ \A i, j \in DOMAIN T :
                  i < j =>
                      /\ T[i].count >= T[j].count
                      /\ T[i].count = T[j].count =>
                            FirstSeen(T[i].error_code) < FirstSeen(T[j].error_code)

\* C7 witness: a drawn table of three rows, the first with the largest
\* count and not the code seen first, the other two of equal count with
\* the larger code first.
C7_Witness ==
    /\ SummaryDone
    /\ Len(error_code_table) = 3
    /\ error_code_table[1].count > error_code_table[2].count
    /\ error_code_table[2].count = error_code_table[3].count
    /\ error_code_table[2].error_code > error_code_table[3].error_code
    /\ reported[1].error_code # error_code_table[1].error_code

\* The error codes of the rows of a table, each run of equal codes once
RunsOfCodes(S) ==
    LET firsts == Ascending({i \in DOMAIN S :
                                i = 1 \/ S[i].error_code # S[i - 1].error_code})
    IN  [n \in DOMAIN firsts |-> S[firsts[n]].error_code]

\* C8: the symbol table drawn by end_report takes the error codes in the
\* order of the error-code table, with all rows of one code together; under
\* a code it has one row per (dso, symbol) pair seen as last frame with that
\* code, with the number of such samples, in descending order of count and
\* with pairs of equal count in first-seen order.
C8_SymbolTable ==
    SummaryDone =>
        LET S == symbol_table
            T == error_code_table
        IN  /\ RunsOfCodes(S) = [i \in DOMAIN T |-> T[i].error_code]
            /\ \A e \in SeenCodes :
                  {<<S[i].dso, S[i].symbol>> :
                      i \in {n \in DOMAIN S : S[n].error_code = e}} =
                  {LastPair(reported[i]) : i \in ReportedWith(e)}
            /\ \A i \in DOMAIN S :
                  S[i].count =
                      Cardinality(ReportedAt(S[i].error_code, <<S[i].dso, S[i].symbol>>))
            /\ \A i, j \in DOMAIN S :
                  (i < j /\ S[i].error_code = S[j].error_code) =>
                      /\ <<S[i].dso, S[i].symbol>> # <<S[j].dso, S[j].symbol>>
                      /\ S[i].count >= S[j].count
                      /\ S[i].count = S[j].count =>
                            FirstSeenAt(S[i].error_code, <<S[i].dso, S[i].symbol>>)
                            < FirstSeenAt(S[j].error_code, <<S[j].dso, S[j].symbol>>)

\* C8 witness: a drawn symbol table of three rows and two error codes, where
\* the code drawn first is not the code seen first, and two rows of one
\* code are in count order against the order in which they were seen.
C8_Witness ==
    /\ SummaryDone
    /\ Len(symbol_table) = 3
    /\ Len(error_code_table) = 2
    /\ error_code_counter[1].key # error_code_table[1].error_code
    /\ \E i \in 1..2 :
          /\ symbol_table[i].error_code = symbol_table[i + 1].error_code
          /\ symbol_table[i].count > symbol_table[i + 1].count
          /\ FirstSeenAt(symbol_table[i].error_code,
                         <<symbol_table[i].dso, symbol_table[i].symbol>>)
             > FirstSeenAt(symbol_table[i + 1].error_code,
                           <<symbol_table[i + 1].dso, symbol_table[i + 1].symbol>>)

\* ---- The driving loop ----

NumCalls(op) == Cardinality({i \in DOMAIN sink_calls : sink_calls[i] = op})

\* report() raised: the run ended with the generator still at its yield,
\* where it stays unless the interpreter finalizes it.
SinkRaised == error # "none" /\ gen_pc \in {"suspended", "closed"}

\* C9: report() is called once for each yielded sample, in the order of the
\* yields, each call before the next sample is produced; end_report() is
\* called at most once, as the last call and only when the generator is
\* exhausted; a run that ends without an error has reported every yielded
\* sample and then called end_report() once.
C9_SinkCalls ==
    /\ Len(reported) <= Len(yielded)
    /\ reported = SubSeq(yielded, 1, Len(reported))
    /\ Len(yielded) = Len(reported) + (IF pc = "report" \/ SinkRaised THEN 1 ELSE 0)
    /\ NumCalls("report") = Len(reported) + (IF SinkRaised THEN 1 ELSE 0)
    /\ \A i \in DOMAIN sink_calls :
          sink_calls[i] = "end_report" =>
              i = Len(sink_calls) /\ gen_pc = "finished" /\ idx = Len(file)
    /\ pc = "done" =>
          /\ error = "none"
          /\ reported = yielded
          /\ sink_calls = [i \in 1..(Len(yielded) + 1) |->
                              IF i <= Len(yielded) THEN "report" ELSE "end_report"]

\* C9 witness: a run that ended without an error after two samples were
\* yielded and reported.
C9_Witness ==
    /\ pc = "done"
    /\ Len(yielded) = 2
    /\ NumCalls("report") = 2
    /\ NumCalls("end_report") = 1

\* C10: while report() has a sample, the generator is suspended at its
\* yield: the last line it took is the blank line that closes the block of
\* that sample, and the Samples built and the filter results are those of
\* the blocks up to that one, none of a later block.
C10_PullBased ==
    pc = "report" =>
        LET st == ClosedStarts(file)
            k  == Len(built)
        IN  /\ gen_pc = "suspended"
            /\ k >= 1 /\ k <= Len(st)
            /\ Min(BlanksAfter(file, st[k])) = idx
            /\ Len(parsed) = k /\ Len(verdicts) = k
            /\ parsed[k] = sample
            /\ yielded[Len(yielded)] = sample

\* C10 witness: the first passing sample of a file with two closed blocks is
\* with report(), and the second block is not parsed.
C10_Witness ==
    /\ pc = "report"
    /\ Len(yielded) = 1
    /\ Len(ClosedStarts(file)) = 2
    /\ Len(built) = 1

\* ---- Reading the file ----

\* C11: when a sample is handed to report(), the lines of the blocks after
\* it have not been read from the file: no line that begins a later block
\* is among the lines read.
C11_LinesReadOnDemand ==
    pc = "report" =>
        \A j \in (idx + 1)..Len(file) : BeginsSample(file[j]) => Len(lines) < j

\* ---- Sample.parse ----

\* A line 'key: value', its key and its value
HasSeparator(l) == \E i \in 1..(Len(l) - 1) : l[i] = ":" /\ l[i + 1] = SP
FirstSeparator(l) == Min({i \in 1..(Len(l) - 1) : l[i] = ":" /\ l[i + 1] = SP})
KeyOf(l) == SubSeq(l, 1, FirstSeparator(l) - 1)
ValueOf(l) == SubSeq(l, FirstSeparator(l) + 2, Len(l))

IsTimeLine(l) == HasSeparator(l) /\ KeyOf(l) = <<"sample_time">>
IsCodeLine(l) == HasSeparator(l) /\ KeyOf(l) = <<"unwinding_error_code">>

\* A line dso_... or symbol_..., and one whose suffix is the decimal index N
IsNodeLine(l) ==
    HasSeparator(l) /\ KeyOf(l) # <<>> /\ KeyOf(l)[1] \in {"dso", "symbol"}
HasIndex(l) ==
    /\ IsNodeLine(l)
    /\ Len(KeyOf(l)) = 3
    /\ KeyOf(l)[2] = "_"
    /\ KeyOf(l)[3] \in Digits \ {"0"}
IndexOf(l) == DigitValue(KeyOf(l)[3])

Decimal(v) == v # <<>> /\ \A i \in DOMAIN v : v[i] \in Digits
RECURSIVE DecimalValue(_)
DecimalValue(v) ==
    IF v = <<>> THEN 0
    ELSE 10 * DecimalValue(SubSeq(v, 1, Len(v) - 1)) + DigitValue(v[Len(v)])

\* The block R is made of 'key: value' lines, its two number fields are
\* decimal, and its dso_N / symbol_N lines use the indices 1..k, each index
\* first after all lower ones.
IndicesInOrder(R) ==
    \A i \in DOMAIN R :
        IsNodeLine(R[i]) =>
            /\ HasIndex(R[i])
            /\ \A n \in 1..(IndexOf(R[i]) - 1) :
                  \E j \in 1..(i - 1) : HasIndex(R[j]) /\ IndexOf(R[j]) = n
WellFormedBlock(R) ==
    /\ \A i \in DOMAIN R : HasSeparator(R[i])
    /\ \A i \in DOMAIN R :
          IsTimeLine(R[i]) \/ IsCodeLine(R[i]) => Decimal(ValueOf(R[i]))
    /\ IndicesInOrder(R)

\* The value of the last line of R with the given key, or else `absent`
LastValue(R, key, absent) ==
    LET at == {i \in DOMAIN R : HasSeparator(R[i]) /\ KeyOf(R[i]) = key}
    IN  IF at = {} THEN absent ELSE ValueOf(R[Max(at)])

NumNodes(R) == Max({0} \cup {IndexOf(R[i]) : i \in {j \in DOMAIN R : HasIndex(R[j])}})
DigitOf(n) == CHOOSE d \in Digits : DigitValue(d) = n

\* The fields C12 gives the sample of block R
FieldsOf(R) ==
    [raw_lines |-> R,
     sample_time |->
        IF \E i \in DOMAIN R : IsTimeLine(R[i])
        THEN DecimalValue(LastValue(R, <<"sample_time">>, <<>>)) ELSE 0,
     error_code |->
        IF \E i \in DOMAIN R : IsCodeLine(R[i])
        THEN DecimalValue(LastValue(R, <<"unwinding_error_code">>, <<>>)) ELSE 0,
     callchain |->
        [n \in 1..NumNodes(R) |->
            [dso |-> LastValue(R, <<"dso", "_", DigitOf(n)>>, <<>>),
             symbol |-> LastValue(R, <<"symbol", "_", DigitOf(n)>>, <<>>)]]]

\* C12: a block whose dso_N / symbol_N lines use the indices 1..k in order
\* parses to a sample with a call chain of exactly k nodes, node N holding
\* the value of the last dso_N line and of the last symbol_N line (empty
\* when there is none), with sample_time and error_code from the last
\* sample_time and unwinding_error_code lines (0 when there is none); lines
\* with any other key have no part in any field.
C12_ParsedFields ==
    \A i \in DOMAIN built :
        WellFormedBlock(built[i]) =>
            /\ i <= Len(parsed)
            /\ parsed[i] = FieldsOf(built[i])

\* A block with two dso_1 lines, no symbol_1 line and a second node was
\* parsed: the later dso_1 value is the one kept.
C12_Witness ==
    \E i \in DOMAIN parsed :
        /\ WellFormedBlock(built[i])
        /\ Len(parsed[i].callchain) = 2
        /\ parsed[i].callchain[1] = [dso |-> LibcSo, symbol |-> <<>>]
        /\ built[i][2] = DsoLine("1", LibFoo)
        /\ built[i][3] = DsoLine("1", LibcSo)

\* The parse state before line n of block R, and after it
ParseBefore(R, n) ==
    ParseLines([sample |-> NewSample(R), error |-> "none"], SubSeq(R, 1, n - 1))
ParseAfter(R, n) == ParseLine(ParseBefore(R, n), R[n])

NodesBefore(R, n) == Len(ParseBefore(R, n).sample.callchain)
NodesAfter(R, n) == Len(ParseAfter(R, n).sample.callchain)

\* Line n of R is reached by parse() and is a dso_N / symbol_N line with N
\* beyond the chain length plus one.
LeavesGap(R, n) ==
    /\ ParseBefore(R, n).error = "none"
    /\ HasIndex(R[n])
    /\ IndexOf(R[n]) > NodesBefore(R, n) + 1

\* C13: a line of a block grows the chain by one node when it is a dso_N /
\* symbol_N line with N equal to the chain length plus one, and by none
\* otherwise; a line with N greater than that creates no node and raises, the
\* run ends there in an error and the sample of the block is not yielded.
C13_NodeOnlyAtNextIndex ==
    \A i \in DOMAIN built :
        \A n \in DOMAIN built[i] :
            ParseBefore(built[i], n).error = "none" =>
                /\ NodesAfter(built[i], n) =
                      IF HasIndex(built[i][n])
                         /\ IndexOf(built[i][n]) = NodesBefore(built[i], n) + 1
                      THEN NodesBefore(built[i], n) + 1
                      ELSE NodesBefore(built[i], n)
                /\ LeavesGap(built[i], n) =>
                      /\ ParseAfter(built[i], n).error = "IndexError"
                      /\ i = Len(built)
                      /\ Len(parsed) = i - 1
                      /\ \A k \in DOMAIN yielded : yielded[k].raw_lines # built[i]
                      /\ pc = "error"
                      /\ error = "IndexError"
                      /\ gen_pc = "raised"

\* The run ended at a block whose symbol_2 line came while the chain was
\* still empty.
C13_Witness ==
    /\ pc = "error"
    /\ built # <<>>
    /\ \E n \in DOMAIN built[Len(built)] :
          /\ LeavesGap(built[Len(built)], n)
          /\ built[Len(built)][n] = SymbolLine("2", "baz")
          /\ NodesBefore(built[Len(built)], n) = 0

\* Block R has a sample_time or unwinding_error_code line whose value int()
\* rejects, or a dso_... / symbol_... line whose suffix after the last '_'
\* int() rejects.
HasMalformedNumber(R) ==
    \E n \in DOMAIN R :
        \/ (IsTimeLine(R[n]) \/ IsCodeLine(R[n])) /\ ~IsInt(ValueOf(R[n]))
        \/ /\ IsNodeLine(R[n])
           /\ Len(RsplitParts(KeyOf(R[n]))) = 2
           /\ ~IsInt(RsplitParts(KeyOf(R[n]))[2])

\* C14: once a completed block with a malformed number has been handed to
\* Sample(), the run has ended in an error at that block: its sample and
\* those of the later blocks are neither built nor yielded, and end_report()
\* is not called.
C14_MalformedNumberIsFatal ==
    \A i \in DOMAIN built :
        HasMalformedNumber(built[i]) =>
            /\ i = Len(built)
            /\ Len(parsed) = i - 1
            /\ Len(yielded) <= i - 1
            /\ pc = "error"
            /\ error \in {"ValueError", "IndexError"}
            /\ gen_pc = "raised"
            /\ NumCalls("end_report") = 0

\* The run ended with ValueError at a first block that has a malformed
\* number, with the lines of a second block not yet looked at.
C14_Witness ==
    /\ pc = "error"
    /\ error = "ValueError"
    /\ Len(built) = 1
    /\ HasMalformedNumber(built[1])
    /\ \E j \in (idx + 1)..Len(lines) : BeginsSample(lines[j])

\* ---- Samples with an empty call chain ----

\* C15: a sample with an empty call chain does not end the run in an error:
\* every filter answers True or False for it (EndDsoFilter and EndSymbolFilter
\* answer False), and report() of the summary output returns for it.
C15_EmptyChainNeverRaises ==
    /\ \A i \in DOMAIN parsed :
          parsed[i].callchain = <<>> => verdicts[i] \in {"True", "False"}
    /\ \A k \in DOMAIN yielded :
          yielded[k].callchain = <<>> /\ k <= NumCalls("report")
              => k <= Len(reported)

\* ---- The detail output ----

\* The closed blocks of the lines read so far that passed the filters,
\* without trailing whitespace, in file order
PassingBlocks ==
    Picked(SubSeq(BlocksStripped(SubSeq(file, 1, idx)), 1, Len(verdicts)),
           verdicts, 1)

\* The lines report() has printed when it was called for each of `blocks`
Printed(blocks) == Concat([k \in DOMAIN blocks |-> blocks[k] \o <<BlankLine>>])

C18_FileClosedWhenRunEnds ==
    /\ gen_pc = "unstarted" <=> fh = "unopened"
    /\ pc \in {"done", "error"} => fh = "closed"

\* ---- A block still open at the end of the file ----

\* The blank lines among the first n lines of L that close an open block
ClosingBlanks(L, n) ==
    {j \in 1..n :
        /\ OnlyWhitespace(L[j])
        /\ \E i \in 1..(j - 1) :
              /\ BeginsSample(L[i])
              /\ \A k \in i..(j - 1) : ~OnlyWhitespace(L[k])}

\* The first line of the block that is open after all lines of L, if any
OpenStarts(L) == {i \in BlockStarts(L) : BlanksAfter(L, i) = {}}

\* C19: Sample() has been called once for each blank line read so far that
\* closed an open block, and for nothing else: when the file ends inside a
\* block, the lines of that block are still with the generator, they were
\* handed to neither Sample() nor filter_sample, and no error came of them.
C19_OpenBlockNeverBuilt ==
    /\ Len(built) = Cardinality(ClosingBlanks(file, idx))
    /\ gen_pc = "finished" /\ OpenStarts(file) # {} =>
          /\ in_sample
          /\ sample_lines =
                [n \in 1..(Len(file) - Min(OpenStarts(file)) + 1) |->
                    rstrip(file[Min(OpenStarts(file)) + n - 1])]
          /\ Len(built) = Len(ClosedStarts(file))
          /\ Len(parsed) = Len(built)
          /\ error = "none"
          /\ pc \in {"end_report", "done"}

\* A run has ended without an error on a file whose first block was yielded
\* and whose second block has a malformed number and no closing blank line.
C19_Witness ==
    /\ pc = "done"
    /\ error = "none"
    /\ Len(built) = 1
    /\ Len(yielded) = 1
    /\ OpenStarts(file) # {}
    /\ file[Len(file)] = ErrorCodeLine("x")

\* ---- The detail output as input ----

\* The tool run in detail mode, with the filters of this run, on the lines
\* this run has printed
RunOnOutput == DetailRun(exclude_filters, include_filters, stdout, FALSE, <<>>, <<>>)

\* C20: in detail mode, a run on the output with the same filters ends
\* without an error and prints the same lines; the output is made of the
\* blocks of the reported samples, each beginning with 'sample_time:',
\* without a blank line inside, closed by a blank line, and parsing to a
\* sample equal to the reported one that passes the filters.
C20_DetailOutputIsFixedPoint ==
    report_output = "ReportOutputDetails" /\ pc # "set_filters" =>
        /\ RunOnOutput.error = "none"
        /\ RunOnOutput.stdout = stdout
        /\ BlocksVerbatim(stdout) = [k \in DOMAIN reported |-> reported[k].raw_lines]
        /\ Len(stdout) = Len(Concat(BlocksVerbatim(stdout))) + Len(reported)
        /\ \A k \in DOMAIN reported :
              LET R == reported[k].raw_lines
              IN  /\ R # <<>>
                  /\ BeginsSample(R[1])
                  /\ \A n \in DOMAIN R : ~OnlyWhitespace(R[n])
                  /\ parse(R) = [sample |-> reported[k], error |-> "none"]
                  /\ filter_sample(exclude_filters, include_filters,
                                   reported[k]) = "True"

\* A detail run has ended with output that differs from its input: one
\* block, whose unwinding_error_code line lost its trailing whitespace.
C20_Witness ==
    /\ pc = "done"
    /\ report_output = "ReportOutputDetails"
    /\ stdout = <<SampleTimeLine("1"), ErrorCodeLine("2"), BlankLine>>
    /\ stdout # file
    /\ RunOnOutput.stdout = stdout

=============================================================================
